---- MODULE Spec2Model ----
(***************************************************************************)
(* Model of invenio_jsonschemas: InvenioJSONSchemasState (ext.py) and the  *)
(* schema view (views.py).                                                 *)
(*                                                                         *)
(* Strings are sequences of tokens.  A token is either one of the          *)
(* characters the URL machinery looks at ("/", ":", "?", "#", "[", "]",    *)
(* " ") or a run of characters that is not split any further ("schemas",   *)
(* "example.org", "%20", the IPv6 address "::1").                          *)
(***************************************************************************)
EXTENDS Integers, Sequences, FiniteSets, TLC

VARIABLES
    config,       \* app.config: the JSONSCHEMAS_* settings
    built,        \* the last path_to_url call: path given, URL returned
    utp,          \* the last url_to_path call: URL given, outcome
    cache,        \* the lru_cache of the most recently created `wrapped`
    loaderCalls,  \* number of times the schema loader has been invoked
    computed,     \* keys for which a `wrapped` call has returned a document
    asked,        \* keys of the get_schema calls made before the last one
    prev,         \* the get_schema call before the last one
    last,         \* the last get_schema call
    resp          \* the last response of the schema route

vars == <<config, built, utp, cache, loaderCalls, computed, asked, prev,
          last, resp>>

(***************************************************************************)
(* Bounds                                                                  *)
(***************************************************************************)
MaxPathLen == 2
MaxTailLen == 2
MaxCalls == 3
MaxRequests == 1

(***************************************************************************)
(* Sequence helpers                                                        *)
(***************************************************************************)
SeqsUpTo(S, n) == UNION {[1..k -> S] : k \in 0..n}

\* str.find for a set of characters: first index holding one, 0 if none
FindAny(s, S) ==
    IF \E i \in 1..Len(s) : s[i] \in S
    THEN CHOOSE i \in 1..Len(s) : s[i] \in S /\ \A j \in 1..(i-1) : s[j] \notin S
    ELSE 0

Drop(s, n) == SubSeq(s, n + 1, Len(s))
Take(s, n) == SubSeq(s, 1, n)

RECURSIVE LStrip(_, _)
LStrip(s, c) == IF s # <<>> /\ s[1] = c THEN LStrip(Tail(s), c) ELSE s

StartsWith(s, p) == Len(s) >= Len(p) /\ Take(s, Len(p)) = p

(***************************************************************************)
(* URL quoting and splitting                                               *)
(***************************************************************************)
\* werkzeug url_quote as used by BaseConverter.to_url: "/" and ":" and the
\* unreserved characters are kept, everything else is percent-encoded
QuoteChar(c) ==
    CASE c = " " -> "%20"
      [] c = "?" -> "%3F"
      [] c = "#" -> "%23"
      [] c = "[" -> "%5B"
      [] c = "]" -> "%5D"
      [] OTHER -> c

UrlQuote(s) == [i \in 1..Len(s) |-> QuoteChar(s[i])]

\* str.lower, on tokens
LowerTok(c) ==
    CASE c = "EXAMPLE.ORG" -> "example.org"
      [] OTHER -> c

Lower(s) == [i \in 1..Len(s) |-> LowerTok(s[i])]

\* characters that may not appear in a URL scheme
NonSchemeChars == {"/", ":", "::1", "?", "#", "[", "]", " ", "%20"}

\* urlsplit, first step: a leading run of scheme characters before the
\* first ":" is the scheme
SplitScheme(url) ==
    LET i == FindAny(url, {":"})
    IN  IF i > 1 /\ \A j \in 1..(i-1) : url[j] \notin NonSchemeChars
        THEN [scheme |-> Lower(Take(url, i - 1)), rest |-> Drop(url, i)]
        ELSE [scheme |-> <<>>, rest |-> url]

\* urlsplit, second step: after "//" the netloc runs up to the first of
\* "/", "?", "#"; an unmatched square bracket in it is a ValueError
SplitNetloc(u) ==
    LET after == Drop(u, 2)
        d == FindAny(after, {"/", "?", "#"})
        netloc == IF d = 0 THEN after ELSE Take(after, d - 1)
        open == \E k \in 1..Len(netloc) : netloc[k] = "["
        close == \E k \in 1..Len(netloc) : netloc[k] = "]"
    IN  IF ~StartsWith(u, <<"/", "/">>)
        THEN [exc |-> "none", netloc |-> <<>>, rest |-> u]
        ELSE IF (open /\ ~close) \/ (close /\ ~open)
        THEN [exc |-> "ValueError", netloc |-> <<>>, rest |-> <<>>]
        ELSE [exc |-> "none", netloc |-> netloc,
              rest |-> IF d = 0 THEN <<>> ELSE Drop(after, d - 1)]

\* urlsplit, last step: the fragment follows the first "#", the query the
\* first "?" before it
SplitPath(u) ==
    LET f == FindAny(u, {"#"})
        q == FindAny(u, {"?"})
        cut == IF f = 0 THEN Len(u) ELSE f - 1
    IN  [path |-> IF q = 0 \/ q > cut THEN Take(u, cut) ELSE Take(u, q - 1),
         query |-> IF q = 0 \/ q > cut THEN <<>>
                   ELSE SubSeq(u, q + 1, cut),
         fragment |-> IF f = 0 THEN <<>> ELSE Drop(u, f)]

\* the SplitResult, given the scheme step's and the netloc step's results
SplitResult(sc, n) ==
    LET t == SplitPath(n.rest)
    IN  IF n.exc # "none"
        THEN [exc |-> n.exc, scheme |-> <<>>, netloc |-> <<>>,
              path |-> <<>>, query |-> <<>>, fragment |-> <<>>]
        ELSE [exc |-> "none", scheme |-> sc.scheme, netloc |-> n.netloc,
              path |-> t.path, query |-> t.query, fragment |-> t.fragment]

\* urllib.parse.urlsplit: scheme, netloc, path, query, fragment, or ValueError
urlsplit(url) ==
    CHOOSE r \in
        { SplitResult(x[1], x[2]) :
            x \in { <<sc, SplitNetloc(sc.rest)>> : sc \in {SplitScheme(url)} } }
        : TRUE

(***************************************************************************)
(* The URL map: one rule '{endpoint}/<path:path>' bound to one host        *)
(***************************************************************************)
\* Map.bind(server_name).match(path_info) with host_matching=True: the
\* endpoint and the path argument, or NotFound (an HTTPException)
MatchNoHost(cfg, server_name, path_info) ==
    LET p == IF path_info = <<>> THEN <<>>
             ELSE <<"/">> \o LStrip(path_info, "/")
        prefix == cfg.endpoint \o <<"/">>
        rest == Drop(p, Len(prefix))
    IN  IF /\ StartsWith(p, prefix)
           /\ rest # <<>>
           /\ rest[1] # "/"
        THEN [exc |-> "none", endpoint |-> "schema", path |-> rest]
        ELSE [exc |-> "HTTPException", endpoint |-> "", path |-> <<>>]

url_map_match(cfg, server_name, path_info) ==
    LET p == IF path_info = <<>> THEN <<>>
             ELSE <<"/">> \o LStrip(path_info, "/")
        prefix == cfg.endpoint \o <<"/">>
        rest == Drop(p, Len(prefix))
    IN  IF /\ Lower(server_name) = <<cfg.host>>
           /\ StartsWith(p, prefix)
           /\ rest # <<>>
           /\ rest[1] # "/"
        THEN [exc |-> "none", endpoint |-> "schema", path |-> rest]
        ELSE [exc |-> "HTTPException", endpoint |-> "", path |-> <<>>]

\* MapAdapter.build('schema', {'path': path}, force_external=True)
url_map_build(cfg, path) ==
    LET rulePath == cfg.endpoint \o <<"/">> \o UrlQuote(path)
    IN  <<cfg.scheme, ":", "/", "/", cfg.host, "/">> \o LStrip(rulePath, "/")

\* InvenioJSONSchemasState.path_to_url
path_to_url(cfg, path) == url_map_build(cfg, path)

\* InvenioJSONSchemasState.url_to_path: kind is "path" (a path is returned),
\* "None" (None is returned) or the name of the exception that escapes
url_to_path(cfg, url) ==
    CHOOSE r \in
        { IF parts.exc # "none"
          THEN [kind |-> parts.exc, value |-> <<>>]
          ELSE CHOOSE r2 \in
                 { IF m.exc = "HTTPException"
                   THEN [kind |-> "None", value |-> <<>>]
                   ELSE IF m.endpoint = "schema"
                   THEN [kind |-> "path", value |-> m.path]
                   ELSE [kind |-> "None", value |-> <<>>]
                   : m \in {url_map_match(cfg, parts.netloc, parts.path)} }
                 : TRUE
          : parts \in {urlsplit(url)} } : TRUE

(***************************************************************************)
(* Inputs of the URL mapping                                               *)
(***************************************************************************)
Hosts == {"example.org", "localhost"}
Schemes == {"http", "https"}
Endpoints == {<<"/", "schemas">>, <<"/", "api", "/", "schemas">>}

PathChars == {"a", "v1.json", "/", " "}

\* paths the rule's <path:path> converter accepts: [^/].*
ValidPath(p) == p # <<>> /\ p[1] # "/"

Paths == {p \in SeqsUpTo(PathChars, MaxPathLen) : ValidPath(p)}

UrlHeads ==
    { <<"https", ":", "/", "/">>, <<"/", "/">>, <<"/">>, <<>> }
UrlNetlocs ==
    { <<"example.org">>, <<"localhost">>, <<"EXAMPLE.ORG">>, <<"evil.org">>,
      <<"example.org", ":", "80">>, <<"[", "evil.org">>,
      <<"[", "::1", "]">>, <<>> }
UrlTailChars == {"a", "/", "?", "#"}
UrlTails ==
    { e \o <<"/">> \o t : e \in Endpoints \cup {<<>>},
                         t \in SeqsUpTo(UrlTailChars, MaxTailLen) }
Urls == { h \o n \o t : h \in UrlHeads, n \in UrlNetlocs, t \in UrlTails }

NoCall == [kind |-> "nocall", value |-> <<>>, url |-> <<>>, parsed |-> FALSE,
           netloc |-> <<>>, path |-> <<>>]
NoBuilt == [path |-> <<>>, url |-> <<>>]

(***************************************************************************)
(* Python values that reach the flags: None, a bool or an int.  v is the   *)
(* value as an integer (True is 1, as in Python), 0 for None.              *)
(***************************************************************************)
PyNone == [t |-> "NoneType", v |-> 0]
PyBool(b) == [t |-> "bool", v |-> IF b THEN 1 ELSE 0]
PyInt(n) == [t |-> "int", v |-> n]

Truthy(x) == x.v # 0

\* Python's `a or b`
PyOr(a, b) == IF Truthy(a) THEN a ELSE b

ConfigDefaults == {PyNone, PyBool(FALSE), PyBool(TRUE)}

\* the configured resolver either reads through the references of the
\* document it is given or passes them on untouched
ResolverClasses == {"reads_refs", "keeps_refs"}

Configs ==
    [host : Hosts, scheme : Schemes, endpoint : Endpoints,
     JSONSCHEMAS_REPLACE_REFS : ConfigDefaults,
     JSONSCHEMAS_RESOLVE_SCHEMA : ConfigDefaults,
     JSONSCHEMAS_RESOLVER_CLS : ResolverClasses]

\* config.py defaults with the host and prefix of a deployment
DefaultConfig ==
    [host |-> "example.org", scheme |-> "https",
     endpoint |-> <<"/", "schemas">>,
     JSONSCHEMAS_REPLACE_REFS |-> PyBool(FALSE),
     JSONSCHEMAS_RESOLVE_SCHEMA |-> PyBool(FALSE),
     JSONSCHEMAS_RESOLVER_CLS |-> "reads_refs"]

(***************************************************************************)
(* Documents and the pluggable loader and resolver                         *)
(***************************************************************************)
Users == {"anonymous", "alice"}

\* the schemas the loader can find, and the kind of $ref each contains:
\* "ok" (every reference can be dereferenced) or "bad" (one cannot)
StoredRefs(path) ==
    CASE path = <<"records", "/", "ok.json">> -> "ok"
      [] path = <<"records", "/", "bad.json">> -> "bad"
      [] OTHER -> "absent"

ServicePaths ==
    { <<"records", "/", "ok.json">>, <<"records", "/", "bad.json">>,
      <<"records", "/", "missing.json">> }

NoDoc == [url |-> <<>>, user |-> "", refs |-> "", steps |-> <<>>]

\* self.loader_cls()(url): the raw document at url as seen by the current
\* user, or JSONSchemaNotFound
Loader(cfg, url, user) ==
    LET found == {p \in ServicePaths :
                     StoredRefs(p) # "absent" /\ path_to_url(cfg, p) = url}
    IN  IF found = {}
        THEN [exc |-> "JSONSchemaNotFound", doc |-> NoDoc]
        ELSE [exc |-> "none",
              doc |-> [url |-> url, user |-> user,
                       refs |-> StoredRefs(CHOOSE p \in found : TRUE),
                       steps |-> <<>>]]

\* JsonRef.replace_refs: every $ref becomes a lazy proxy; nothing is
\* dereferenced yet
replace_refs(doc) == [doc EXCEPT !.steps = Append(@, "inline")]

\* a document holding a lazy proxy whose reference cannot be dereferenced
HasBrokenProxy(doc) ==
    /\ doc.refs = "bad"
    /\ \E i \in 1..Len(doc.steps) : doc.steps[i] = "inline"

\* self.resolver_cls(schema)
resolver_cls(cfg, doc) ==
    IF cfg.JSONSCHEMAS_RESOLVER_CLS = "reads_refs" /\ HasBrokenProxy(doc)
    THEN [exc |-> "JsonRefError", doc |-> NoDoc]
    ELSE [exc |-> "none", doc |-> [doc EXCEPT !.steps = Append(@, "resolve")]]

\* flask.jsonify(schema): serialising reads every node of the document
jsonify(doc) ==
    IF HasBrokenProxy(doc)
    THEN [exc |-> "JsonRefError", doc |-> NoDoc]
    ELSE [exc |-> "none", doc |-> doc]

(***************************************************************************)
(* functools.lru_cache: entries in order of use, least recent first        *)
(***************************************************************************)
maxsize == 1000

\* how a flag compares and hashes inside a cache key (True == 1, None # 0)
PyKey(x) == [none |-> x.t = "NoneType", v |-> x.v]

\* the positional arguments of `wrapped` other than self
CacheKey(path, with_refs, resolved, user) ==
    [path |-> path, with_refs |-> PyKey(with_refs),
     resolved |-> PyKey(resolved), user |-> user]

CacheKeys(c) == {c[i].key : i \in 1..Len(c)}

RemoveAt(c, i) == SubSeq(c, 1, i - 1) \o SubSeq(c, i + 1, Len(c))

\* one call of an lru_cache-wrapped function on cache c: res is what the
\* wrapped function does when it is run
lru_cache_call(c, key, res) ==
    IF key \in CacheKeys(c)
    THEN LET i == CHOOSE j \in 1..Len(c) : c[j].key = key
         IN  [cache |-> Append(RemoveAt(c, i), c[i]), hit |-> TRUE,
              exc |-> "none", doc |-> c[i].value, load |-> "none",
              resolverCalled |-> FALSE, resolverArg |-> NoDoc]
    ELSE IF res.exc # "none"
    THEN [cache |-> c, hit |-> FALSE, exc |-> res.exc, doc |-> NoDoc,
          load |-> res.load, resolverCalled |-> res.resolverCalled,
          resolverArg |-> res.resolverArg]
    ELSE LET c1 == Append(c, [key |-> key, value |-> res.doc])
         IN  [cache |-> IF Len(c1) > maxsize THEN Tail(c1) ELSE c1,
              hit |-> FALSE, exc |-> "none", doc |-> res.doc,
              load |-> res.load, resolverCalled |-> res.resolverCalled,
              resolverArg |-> res.resolverArg]

(***************************************************************************)
(* InvenioJSONSchemasState.get_schema                                      *)
(***************************************************************************)
\* the body of `wrapped` with the transforms guarded by the wrong flags
WrappedFlagsMixed(cfg, path, with_refs, resolved, user) ==
    LET loaded == Loader(cfg, path_to_url(cfg, path), user)
        s1 == IF Truthy(PyOr(with_refs, resolved))
              THEN replace_refs(loaded.doc) ELSE loaded.doc
        r == resolver_cls(cfg, s1)
    IN  IF loaded.exc = "JSONSchemaNotFound"
        THEN [exc |-> "NotFound", doc |-> NoDoc, load |-> loaded.exc,
              resolverCalled |-> FALSE, resolverArg |-> NoDoc]
        ELSE IF Truthy(resolved)
        THEN [exc |-> r.exc, doc |-> r.doc, load |-> "ok",
              resolverCalled |-> TRUE, resolverArg |-> s1]
        ELSE [exc |-> "none", doc |-> s1, load |-> "ok",
              resolverCalled |-> FALSE, resolverArg |-> NoDoc]

\* the body of `wrapped` with the resolver run before the inlining
WrappedResolveFirst(cfg, path, with_refs, resolved, user) ==
    LET loaded == Loader(cfg, path_to_url(cfg, path), user)
        r == resolver_cls(cfg, loaded.doc)
        s1 == IF Truthy(resolved) THEN r.doc ELSE loaded.doc
        s2 == IF Truthy(with_refs) THEN replace_refs(s1) ELSE s1
    IN  IF loaded.exc = "JSONSchemaNotFound"
        THEN [exc |-> "NotFound", doc |-> NoDoc, load |-> loaded.exc,
              resolverCalled |-> FALSE, resolverArg |-> NoDoc]
        ELSE IF Truthy(resolved) /\ r.exc # "none"
        THEN [exc |-> r.exc, doc |-> NoDoc, load |-> "ok",
              resolverCalled |-> TRUE, resolverArg |-> loaded.doc]
        ELSE [exc |-> "none", doc |-> s2, load |-> "ok",
              resolverCalled |-> Truthy(resolved),
              resolverArg |-> IF Truthy(resolved) THEN loaded.doc ELSE NoDoc]

\* the body of `wrapped`: exc is "none", "NotFound" (abort(404), an
\* HTTPException) or "JsonRefError"
wrapped(cfg, path, with_refs, resolved, user) ==
    LET loaded == Loader(cfg, path_to_url(cfg, path), user)
        s1 == IF Truthy(with_refs) THEN replace_refs(loaded.doc)
              ELSE loaded.doc
        r == resolver_cls(cfg, s1)
    IN  IF loaded.exc = "JSONSchemaNotFound"
        THEN [exc |-> "NotFound", doc |-> NoDoc, load |-> loaded.exc,
              resolverCalled |-> FALSE, resolverArg |-> NoDoc]
        ELSE IF Truthy(resolved)
        THEN [exc |-> r.exc, doc |-> r.doc, load |-> "ok",
              resolverCalled |-> TRUE, resolverArg |-> s1]
        ELSE [exc |-> "none", doc |-> s1, load |-> "ok",
              resolverCalled |-> FALSE, resolverArg |-> NoDoc]

\* the cache `wrapped` is given: @lru_cache is applied inside get_schema, so
\* every call of get_schema decorates a new function with a new, empty cache
WrappedCache(c) == <<>>

get_schema(cfg, c, path, with_refs, resolved, user) ==
    lru_cache_call(WrappedCache(c),
                   CacheKey(path, with_refs, resolved, user),
                   wrapped(cfg, path, with_refs, resolved, user))

(***************************************************************************)
(* State                                                                   *)
(***************************************************************************)
NoGet ==
    [n |-> 0, path |-> <<>>, with_refs |-> PyNone, resolved |-> PyNone,
     user |-> "", hit |-> FALSE, exc |-> "none", doc |-> NoDoc,
     load |-> "none", resolverCalled |-> FALSE, resolverArg |-> NoDoc]

NoResp ==
    [n |-> 0, refs |-> "absent", resolvedArg |-> "absent", status |-> 0,
     body |-> NoDoc, failure |-> "none", failedIn |-> "none"]

KeyOf(call) == CacheKey(call.path, call.with_refs, call.resolved, call.user)

InitWith(cfgs) ==
    /\ config \in cfgs
    /\ built = NoBuilt
    /\ utp = NoCall
    /\ cache = <<>>
    /\ loaderCalls = 0
    /\ computed = {}
    /\ asked = {}
    /\ prev = NoGet
    /\ last = NoGet
    /\ resp = NoResp

\* the effect of one get_schema call on the state
Called(path, with_refs, resolved, user, out) ==
    /\ cache' = out.cache
    /\ loaderCalls' = loaderCalls + (IF out.load = "none" THEN 0 ELSE 1)
    /\ computed' = IF out.exc = "none"
                   THEN computed \cup {CacheKey(path, with_refs, resolved, user)}
                   ELSE computed
    /\ asked' = IF last.n = 0 THEN asked ELSE asked \cup {KeyOf(last)}
    /\ prev' = last
    /\ last' = [n |-> last.n + 1, path |-> path, with_refs |-> with_refs,
                resolved |-> resolved, user |-> user, hit |-> out.hit,
                exc |-> out.exc, doc |-> out.doc, load |-> out.load,
                resolverCalled |-> out.resolverCalled,
                resolverArg |-> out.resolverArg]

(***************************************************************************)
(* Operations                                                              *)
(***************************************************************************)
\* state.path_to_url(path); built and utp record one call each
PathToUrl(path) ==
    /\ built = NoBuilt
    /\ utp = NoCall
    /\ built' = [path |-> path, url |-> path_to_url(config, path)]
    /\ UNCHANGED <<config, utp, cache, loaderCalls, computed, asked, prev, last,
                   resp>>

UrlToPathResult(url) ==
    LET parts == urlsplit(url)
        r == url_to_path(config, url)
    IN  [kind |-> r.kind, value |-> r.value, url |-> url,
         parsed |-> parts.exc = "none", netloc |-> parts.netloc,
         path |-> parts.path]

\* state.url_to_path(url) on a URL from outside
UrlToPath(url) ==
    /\ built = NoBuilt
    /\ utp = NoCall
    /\ utp' = UrlToPathResult(url)
    /\ UNCHANGED <<config, built, cache, loaderCalls, computed, asked, prev, last,
                   resp>>

\* state.url_to_path(url) on the URL path_to_url has just returned
UrlToPathOfBuilt ==
    /\ built # NoBuilt
    /\ utp = NoCall
    /\ utp' = UrlToPathResult(built.url)
    /\ UNCHANGED <<config, built, cache, loaderCalls, computed, asked, prev,
                   last, resp>>

\* state.get_schema(path, with_refs, resolved) called by `user`
GetSchema(path, with_refs, resolved, user) ==
    /\ last.n < MaxCalls
    /\ Called(path, with_refs, resolved, user,
              get_schema(config, cache, path, with_refs, resolved, user))
    /\ UNCHANGED <<config, built, utp, resp>>

(***************************************************************************)
(* The schema route (views.py)                                             *)
(***************************************************************************)
QueryArgs == {"absent", "0", "1", "x"}

\* request.args.get(key, default, type=int): the default when the key is
\* absent or its value is not an integer
args_get(raw, default) ==
    CASE raw = "0" -> PyInt(0)
      [] raw = "1" -> PyInt(1)
      [] OTHER -> default

view_resolved(cfg, resolvedArg) ==
    args_get(resolvedArg, cfg.JSONSCHEMAS_RESOLVE_SCHEMA)

\* the refs parameter taken at its word
ViewRefsOnly(cfg, refsArg, resolved) ==
    args_get(refsArg, cfg.JSONSCHEMAS_REPLACE_REFS)

view_with_refs(cfg, refsArg, resolved) ==
    PyOr(args_get(refsArg, cfg.JSONSCHEMAS_REPLACE_REFS), resolved)

\* the response of GET {endpoint}/{schema_path}, given what state.get_schema
\* did: an HTTPException becomes its status, any other exception a 500
view_response(refsArg, resolvedArg, out) ==
    LET j == jsonify(out.doc)
        base == [n |-> resp.n + 1, refs |-> refsArg,
                 resolvedArg |-> resolvedArg, status |-> 200,
                 body |-> NoDoc, failure |-> "none", failedIn |-> "none"]
    IN  IF out.exc = "NotFound"
        THEN [base EXCEPT !.status = 404, !.failure = "SchemaNotFound",
                          !.failedIn = "loader"]
        ELSE IF out.exc = "JsonRefError"
        THEN [base EXCEPT !.status = 500,
                          !.failure = "ReferenceResolutionError",
                          !.failedIn = "resolver"]
        ELSE IF j.exc = "JsonRefError"
        THEN [base EXCEPT !.status = 404,
                          !.failure = "ReferenceResolutionError",
                          !.failedIn = "jsonify"]
        ELSE [base EXCEPT !.body = j.doc]

\* GET {endpoint}/{schema_path}?refs=..&resolved=.. by `user`
ViewGetSchema(schema_path, refsArg, resolvedArg, user) ==
    /\ resp.n < MaxRequests
    /\ LET resolved == view_resolved(config, resolvedArg)
           with_refs == view_with_refs(config, refsArg, resolved)
           out == get_schema(config, cache, schema_path, with_refs, resolved,
                             user)
       IN  /\ Called(schema_path, with_refs, resolved, user, out)
           /\ resp' = view_response(refsArg, resolvedArg, out)
    /\ UNCHANGED <<config, built, utp>>

(***************************************************************************)
(* Specifications                                                          *)
(***************************************************************************)
Flags == {PyBool(FALSE), PyBool(TRUE)}

UrlConfigs ==
    {c \in Configs : /\ c.JSONSCHEMAS_REPLACE_REFS = PyBool(FALSE)
                     /\ c.JSONSCHEMAS_RESOLVE_SCHEMA = PyBool(FALSE)
                     /\ c.JSONSCHEMAS_RESOLVER_CLS = "reads_refs"}
CacheConfigs ==
    {c \in Configs : /\ c.JSONSCHEMAS_REPLACE_REFS = PyBool(FALSE)
                     /\ c.JSONSCHEMAS_RESOLVE_SCHEMA = PyBool(FALSE)
                     /\ c.host = "example.org" /\ c.scheme = "https"
                     /\ c.endpoint = <<"/", "schemas">>}
ViewConfigs ==
    {c \in Configs : /\ c.host = "example.org" /\ c.scheme = "https"
                     /\ c.endpoint = <<"/", "schemas">>}

\* the URL mapping
InitUrl == InitWith(UrlConfigs)
NextUrl ==
    \/ \E p \in Paths : PathToUrl(p)
    \/ \E u \in Urls : UrlToPath(u)
    \/ UrlToPathOfBuilt
SpecUrl == InitUrl /\ [][NextUrl]_vars

\* get_schema called through the API
InitCache == InitWith(CacheConfigs)
NextCache ==
    \E path \in ServicePaths, with_refs \in Flags, resolved \in Flags,
       user \in Users : GetSchema(path, with_refs, resolved, user)
SpecCache == InitCache /\ [][NextCache]_vars

\* requests to the schema route
InitView == InitWith(ViewConfigs)
NextView ==
    \E path \in ServicePaths, refsArg \in QueryArgs, resolvedArg \in QueryArgs,
       user \in Users : ViewGetSchema(path, refsArg, resolvedArg, user)
SpecView == InitView /\ [][NextView]_vars

(***************************************************************************)
(* Properties                                                              *)
(***************************************************************************)
SameKey(a, b) == KeyOf(a) = KeyOf(b)

HasStep(doc, step) == \E i \in 1..Len(doc.steps) : doc.steps[i] = step

\* the raw document the loader holds for the last call
RawOfLast ==
    [url |-> path_to_url(config, last.path), user |-> last.user,
     refs |-> StoredRefs(last.path), steps |-> <<>>]

\* C1: when a get_schema call follows a successful call with the same path,
\* with_refs, resolved and user, it returns an equal document and does not
\* invoke the schema loader.
C1_RepeatServedFromCache ==
    (prev.n >= 1 /\ SameKey(prev, last) /\ prev.exc = "none")
        => (last.exc = "none" /\ last.doc = prev.doc /\ last.load = "none")

\* C2: a call whose key differs from every earlier call's key in with_refs,
\* resolved or the user is not answered from a cache entry; the document it
\* returns is the one loaded for its path and user and transformed by its own
\* flags.
DiffersInFlagsOrUser(k, l) ==
    \/ k.with_refs # l.with_refs
    \/ k.resolved # l.resolved
    \/ k.user # l.user

C2_DistinctKeysOwnResult ==
    ( /\ last.n >= 1
      /\ last.exc = "none"
      /\ \A k \in asked : DiffersInFlagsOrUser(k, KeyOf(last)) )
        => ( /\ ~last.hit
             /\ last.doc.url = RawOfLast.url
             /\ last.doc.user = last.user
             /\ HasStep(last.doc, "inline") <=> Truthy(last.with_refs)
             /\ HasStep(last.doc, "resolve") <=> Truthy(last.resolved) )

C2_Witness ==
    /\ last.n >= 2
    /\ last.exc = "none"
    /\ \A k \in asked : DiffersInFlagsOrUser(k, KeyOf(last))
    /\ \E k \in asked \cap computed :
          /\ k.path = last.path
          /\ k.user # last.user
          /\ k.with_refs = KeyOf(last).with_refs
          /\ k.resolved = KeyOf(last).resolved
    /\ \E k \in asked \cap computed :
          /\ k.path = last.path
          /\ k.user = last.user
          /\ k.with_refs # KeyOf(last).with_refs
    /\ Truthy(last.with_refs)
    /\ last.doc.user = last.user

\* C3: when the loader raises JSONSchemaNotFound, get_schema raises
\* JSONSchemaNotFound to its caller and the cache holds no entry for the key.
C3_NotFoundSurfaces ==
    (last.n >= 1 /\ last.load = "JSONSchemaNotFound")
        => ( /\ last.exc = "JSONSchemaNotFound"
             /\ KeyOf(last) \notin CacheKeys(cache) )

\* C4: a request during which loading fails with schema-not-found, or the
\* inlining or the resolver fails with a reference error, is answered 404
\* with no document, wherever the failure is raised.
C4_FailuresAre404 ==
    (resp.n >= 1 /\ resp.failure # "none")
        => (resp.status = 404 /\ resp.body = NoDoc)

\* C5: the with_refs flag the view passes to get_schema is truthy whenever
\* the resolved flag it passes is truthy, also for refs=0; an absent
\* parameter takes the configured default.
C5_ResolvedForcesRefs ==
    resp.n >= 1 =>
        /\ Truthy(last.resolved) => Truthy(last.with_refs)
        /\ resp.resolvedArg = "absent"
              => last.resolved = config.JSONSCHEMAS_RESOLVE_SCHEMA
        /\ (resp.refs = "absent" /\ ~Truthy(last.resolved))
              => Truthy(last.with_refs)
                     = Truthy(config.JSONSCHEMAS_REPLACE_REFS)
        /\ (resp.refs = "0" /\ ~Truthy(last.resolved))
              => ~Truthy(last.with_refs)

C5_Witness ==
    /\ resp.n >= 1
    /\ resp.refs = "0"
    /\ resp.resolvedArg = "absent"
    /\ config.JSONSCHEMAS_RESOLVE_SCHEMA = PyBool(TRUE)
    /\ config.JSONSCHEMAS_REPLACE_REFS = PyBool(FALSE)
    /\ Truthy(last.resolved)
    /\ Truthy(last.with_refs)
    /\ last.load = "ok"

\* C6: url_to_path applied to the URL path_to_url builds for a path the
\* routing rule accepts returns that path.
C6_RoundTrip ==
    (built # NoBuilt /\ ValidPath(built.path) /\ utp.kind # "nocall")
        => (utp.kind = "path" /\ utp.value = built.path)

C8_NeverRaises ==
    utp.kind \in {"nocall", "path", "None"}

\* C9: the cache holds at most maxsize entries, and a call whose key was
\* computed by an earlier call and has not been evicted is served without
\* invoking the loader.
C9_UnevictedServedFromCache ==
    /\ Len(cache) <= maxsize
    /\ ( /\ last.n >= 1
         /\ KeyOf(last) \in asked \cap computed
         /\ Cardinality(computed) <= maxsize )
          => (last.hit /\ last.load = "none")

\* C10: on a miss the document is loaded first; with both flags the resolver
\* is given the inlined document, with only resolved the raw document, with
\* only with_refs the document is inlined and the resolver not called, with
\* neither the raw document is returned and the resolver not called.
C10_TransformOrder ==
    (last.n >= 1 /\ ~last.hit /\ last.load = "ok") =>
        LET raw == RawOfLast
            inlined == [raw EXCEPT !.steps = <<"inline">>]
        IN  CASE Truthy(last.with_refs) /\ Truthy(last.resolved) ->
                   /\ last.resolverCalled
                   /\ last.resolverArg = inlined
                   /\ last.exc = "none"
                         => last.doc.steps = <<"inline", "resolve">>
              [] ~Truthy(last.with_refs) /\ Truthy(last.resolved) ->
                   /\ last.resolverCalled
                   /\ last.resolverArg = raw
                   /\ last.exc = "none"
                         => last.doc.steps = <<"resolve">>
              [] Truthy(last.with_refs) /\ ~Truthy(last.resolved) ->
                   /\ ~last.resolverCalled
                   /\ last.exc = "none"
                   /\ last.doc = inlined
              [] OTHER ->
                   /\ ~last.resolverCalled
                   /\ last.exc = "none"
                   /\ last.doc = raw

C10_Witness ==
    /\ last.n >= 1
    /\ ~last.hit
    /\ last.load = "ok"
    /\ Truthy(last.with_refs)
    /\ Truthy(last.resolved)
    /\ last.exc = "none"
    /\ last.resolverArg.steps = <<"inline">>
    /\ last.doc.steps = <<"inline", "resolve">>

====
